---- MODULE Spec2Model ----
(***************************************************************************)
(* Model of the sales back office of roastery-project.                     *)
(*                                                                         *)
(* The centre of the model is SalesServices.createSaleWithItems            *)
(* (src/src/services/SalesServices.js), one action per awaited storage     *)
(* statement, run by several requests at once over a store with            *)
(* READ COMMITTED transactions and row locks (SELECT ... FOR UPDATE).      *)
(* Around it are the single-statement operations of SalesServices and      *)
(* SalesRepository (createSale, updateSaleTotal, applyDiscount, the        *)
(* date-range query), the inventory handlers of PagesController over       *)
(* InventoryRepository, ProductsServices.updateProduct over                *)
(* ProductsRepository, and the failures of the storage calls.              *)
(*                                                                         *)
(* Money is kept exactly, in units of 1/10000 (MoneyScale units make 1.00),*)
(* so that subtotal * percentage / 100 is an integer for every price that  *)
(* is a whole number of cents and every whole percentage.  The store       *)
(* keeps the parameters of a statement as they are passed: the source      *)
(* holds no schema, hence no column constraint and no column scale.        *)
(***************************************************************************)
EXTENDS Integers, Sequences, FiniteSets, TLC

(***************************************************************************)
(* Bounds of the model.                                                    *)
(***************************************************************************)
MaxItems == 2          \* longest item list of one createSaleWithItems call
MaxOps == 2            \* single-statement service operations in one run

Requests == {"r1", "r2"}   \* concurrent createSaleWithItems invocations

(***************************************************************************)
(* JavaScript values.  A value is a number, NaN, undefined or null; the    *)
(* source tests them with !x, isNaN(x) and the relational operators.       *)
(***************************************************************************)
Num(n) == [k |-> "number", n |-> n]
NaN == [k |-> "NaN", n |-> 0]
Undefined == [k |-> "undefined", n |-> 0]
Null == [k |-> "null", n |-> 0]

IsNum(x) == x.k = "number"

\* !x : 0, NaN and undefined are falsy, every other number is truthy
Falsy(x) == ~IsNum(x) \/ x.n = 0

\* isNaN(x) : undefined converts to NaN, null to 0
IsNaN(x) == x.k \in {"NaN", "undefined"}

\* a < b : false as soon as one side converts to NaN
JsLt(a, b) == IsNum(a) /\ IsNum(b) /\ a.n < b.n

\* a > b
JsGt(a, b) == JsLt(b, a)

\* a * b, a - b, a + b : NaN as soon as one side converts to NaN
JsMul(a, b) == IF IsNum(a) /\ IsNum(b) THEN Num(a.n * b.n) ELSE NaN
JsSub(a, b) == IF IsNum(a) /\ IsNum(b) THEN Num(a.n - b.n) ELSE NaN
JsAdd(a, b) == IF IsNum(a) /\ IsNum(b) THEN Num(a.n + b.n) ELSE NaN

\* a / 100 on exact money: the quotient is exact for the prices and
\* percentages of the model (see MoneyScale)
JsDiv100(a) == IF IsNum(a) THEN Num(a.n \div 100) ELSE NaN

\* a default parameter value replaces undefined only
DefaultTo(x, d) == IF x = Undefined THEN d ELSE x

(***************************************************************************)
(* The store at construction: the inventory rows, and the inputs the       *)
(* requests draw from.  Product 3 has no inventory row.                    *)
(***************************************************************************)
InitStock == (1 :> 10) @@ (2 :> 2)

ProductIds == {1, 2, 3}

\* 5.00 and 0.05 in money units (1.00 = 10000 units)
PriceFive == Num(50000)
PriceFiveCents == Num(500)

Item(p, q, a) == [product_id |-> p, quantity |-> q, price_at_sale |-> a]

\* every list of 0..MaxItems items over the item set S
ItemLists(S) == UNION {[1..n -> S] : n \in 0..MaxItems}

Call(u, its, d) == [user_id |-> u, items |-> its, discount_percentage |-> d]

\* the items of the invocations that run concurrently: quantities within
\* and beyond the stock of products 1 and 2
ConcurrentItems ==
    {Item(Num(1), Num(5), PriceFive), Item(Num(2), Num(2), PriceFive),
     Item(Num(2), Num(5), PriceFiveCents)}

ConcurrentCalls ==
    {Call(Num(1), its, Num(10)) : its \in ItemLists(ConcurrentItems) \ {<<>>}}

\* the inputs of an invocation that runs alone
AllItems ==
    {Item(p, q, PriceFive) :
        p \in {Num(n) : n \in ProductIds},
        q \in {Undefined} \cup {Num(n) : n \in {-1, 0, 3, 5}}}
    \cup {Item(Num(1), Num(3), PriceFiveCents)}

AllDiscounts == {Undefined, NaN} \cup {Num(n) : n \in {-1, 10, 101}}

AllCalls ==
    {Call(u, its, d) :
        u \in {Num(0), Num(1)},
        its \in ItemLists(AllItems),
        d \in AllDiscounts}

(***************************************************************************)
(* State.                                                                  *)
(***************************************************************************)
VARIABLES
    inventory,    \* committed inventory rows: product_id -> quantity_in_stock
    sales,        \* committed sales rows
    sale_items,   \* committed sale_items rows
    sale_seq,     \* the sequence behind sales.sale_id
    item_seq,     \* the sequence behind sale_items.sale_item_id
    pool,         \* connections of the pool that are free
    pc,           \* per request: the statement it awaits next
    args,         \* per request: the arguments of the invocation
    sale,         \* per request: its sales row (committed by COMMIT only)
    idx,          \* per request: position in items of the for loop
    subtotal,     \* per request: the local subtotal
    invResult,    \* per request: the rows of the last SELECT ... FOR UPDATE
    txInv,        \* per request: inventory rows it wrote, not yet committed
    txItems,      \* per request: sale_items rows it inserted, not yet committed
    locks,        \* per request: inventory rows it holds the row lock of
    error,        \* per request: the error thrown inside the try block
    ret,          \* per request: the row handed to SalesDTO.fromEntity
    pre,          \* per request: at its invocation, the committed state and
                  \*              the requests in flight
    caller,       \* the caller of the single-statement service operations
    ops,          \* the service operations called so far
    products,     \* committed products rows: product_id -> row
    product_seq,  \* the sequence behind products.product_id
    now,          \* the clock of the store: a position in Clock
    conn,         \* per request: its connection and the transaction
                  \*              statements issued on it
    http          \* the session and the request that the controller handles

committed == <<inventory, sales, sale_items>>
seqs == <<sale_seq, item_seq>>
locals == <<args, sale, idx, subtotal, invResult, txInv, txItems, locks, error, ret, pre>>
service == <<caller, ops>>
catalog == <<products, product_seq>>
vars == <<inventory, sales, sale_items, sale_seq, item_seq, pool, pc, args, sale,
          idx, subtotal, invResult, txInv, txItems, locks, error, ret, pre,
          caller, ops, products, product_seq, now, conn, http>>

MaxPool == 2            \* connections of the pool

NoRows == <<>>
NoError == [kind |-> "none", product_id |-> 0, available |-> 0, requested |-> 0]
Error(kind, p, avail, req) ==
    [kind |-> kind, product_id |-> p, available |-> avail, requested |-> req]

\* a timestamp of the store: a calendar date and the time of that day
Timestamp(y, m, d, t) == [year |-> y, month |-> m, day |-> d, time |-> t]

\* the instants at which the store is used, in the order of time: the eve
\* of January 2024, its first day at midnight, its last day after midnight
\* and the first midnight of February
Clock ==
    << Timestamp(2023, 12, 31, 1), Timestamp(2024, 1, 1, 0),
       Timestamp(2024, 1, 31, 1), Timestamp(2024, 2, 1, 0) >>

\* sales.sale_date of a new row: the column's default, now
SaleDateDefault == Clock[now]

NoSale == [sale_id |-> 0, user_id |-> 0, sale_date |-> Timestamp(0, 0, 0, 0),
           subtotal |-> Num(0),
           discount_percentage |-> Num(0), discount_amount |-> Num(0),
           total_amount |-> Num(0)]

\* history of applyDiscount: the last application that completed, when it
\* is the operation that came just before, and how many times in a row the
\* same sale got the same percentage
NoApplied == [sale_id |-> 0, discount_percentage |-> Num(0), row |-> NoSale,
              times |-> 0]

\* the caller between two operations, with the outcome of the last one:
\* its arguments, the error it threw, the repository queries it issued, the
\* rows it returned and the requests whose transaction was open meanwhile;
\* every method throws from inside a try block whose catch block builds a
\* new Error around the message of the one it caught
Outcome(op, e) ==
    [pc |-> "idle", op |-> op, error |-> e, sale_id |-> 0,
     discount_percentage |-> Num(0), subtotal |-> Num(0),
     args |-> <<>>, queries |-> 0, rows |-> <<>>, during |-> {},
     applied |-> NoApplied,
     thrown |-> IF e = "none" THEN "none" ELSE "wrapped"]
Idle == Outcome("none", "none")

\* a product row; the columns product_name, description and product_type
\* are written like status and play no part in a sale
Product(unit_price, status) == [unit_price |-> unit_price, status |-> status]

InitProducts ==
    (1 :> Product(PriceFive, "available")) @@ (2 :> Product(PriceFive, "available"))

\* the connection of a request: whether it is checked out, how many times
\* it was released, the outcome of the transaction statements issued on it
\* ("none" when not issued, "ok", "failed") and what the caller received
\* ("none" for a result, "wrapped" for an Error built by the service, "raw"
\* for the storage driver's own exception)
NoConn == [held |-> FALSE, releases |-> 0, begin |-> "none", commit |-> "none",
           rollback |-> "none", thrown |-> "none"]

\* req.session.user: absent before a login, else the user_id and the role
NoSession == [present |-> FALSE, user_id |-> Undefined, role |-> "none"]
Session(user_id, role) == [present |-> TRUE, user_id |-> user_id, role |-> role]

\* the users rows at construction: a customer and an administrator
InitUsers == {Session(Num(1), "customer"), Session(Num(2), "admin")}

\* the controller between two requests, with the session, the users rows
\* and the response to the last request: the handler, the cart and the
\* discount of the body, the sale it created or asked for, the position in
\* the cart, the role of the body and the role it passed to registerUser,
\* whether it fetched the
\* items of a sale and the rows it rendered, and the committed store at the
\* start of the request
NoRequest ==
    [pc |-> "idle", handler |-> "none", session |-> NoSession, users |-> InitUsers,
     items |-> <<>>, discount_percentage |-> Undefined, sale_id |-> 0, i |-> 0,
     response |-> "none", body_role |-> "none", role |-> "none",
     fetched |-> FALSE, rows |-> {},
     pre |-> <<InitStock, {}, {}>>]

\* the state after construction, with a pool of n connections
InitPool(n) ==
    /\ inventory = InitStock
    /\ sales = {}
    /\ sale_items = {}
    /\ sale_seq = 1
    /\ item_seq = 1
    /\ pool = n
    /\ pc = [r \in Requests |-> "idle"]
    /\ args = [r \in Requests |-> Call(Undefined, <<>>, Undefined)]
    /\ sale = [r \in Requests |-> NoSale]
    /\ idx = [r \in Requests |-> 0]
    /\ subtotal = [r \in Requests |-> Num(0)]
    /\ invResult = [r \in Requests |-> NoRows]
    /\ txInv = [r \in Requests |-> <<>>]
    /\ txItems = [r \in Requests |-> {}]
    /\ locks = [r \in Requests |-> {}]
    /\ error = [r \in Requests |-> NoError]
    /\ ret = [r \in Requests |-> NoSale]
    /\ pre = [r \in Requests |-> [store |-> <<InitStock, {}, {}>>, inflight |-> {}]]
    /\ caller = Idle
    /\ ops = 0
    /\ products = InitProducts
    /\ product_seq = 3
    /\ now = 1
    /\ conn = [r \in Requests |-> NoConn]
    /\ http = NoRequest

Init == InitPool(MaxPool)

(***************************************************************************)
(* SalesServices.createSaleWithItems, one action per awaited statement.    *)
(* An action is the synchronous code that leads to the statement and the   *)
(* statement itself; a throw in that code leads to the catch block, whose  *)
(* statement is ROLLBACK.                                                  *)
(***************************************************************************)

\* (fault: the identifier test is isNaN(id) alone, which null passes)
InvalidId_NaNOnly(id) == IsNaN(id)

\* user_id fails the service's identifier test: !id || isNaN(id)
InvalidId(id) == Falsy(id) \/ IsNaN(id)

\* (fault: the upper end of the range is not tested)
DiscountOutOfRange_NoUpper(d) == JsLt(d, Num(0))

\* discount_percentage < 0 || discount_percentage > 100
DiscountOutOfRange(d) == JsLt(d, Num(0)) \/ JsGt(d, Num(100))

\* !product_id || !quantity || !price_at_sale
ItemIncomplete(item) ==
    Falsy(item.product_id) \/ Falsy(item.quantity) \/ Falsy(item.price_at_sale)

\* (fault: the test only asks that some stock is left)
InsufficientStock_AnyLeft(availableStock, quantity) == availableStock <= 0

\* (fault: the test is off by one)
InsufficientStock_OffByOne(availableStock, quantity) == availableStock + 1 < quantity

\* availableStock < quantity
InsufficientStock(availableStock, quantity) == availableStock < quantity

\* (fault: one unit is taken whatever the quantity)
DecrementStock_ByOne(quantity_in_stock, quantity) == quantity_in_stock - 1

\* quantity_in_stock - $1
DecrementStock(quantity_in_stock, quantity) == quantity_in_stock - quantity

\* (fault: the line total is taken from the price of the product row)
AddToSubtotal_LivePrice(sub, item) ==
    JsAdd(sub, JsMul(products[item.product_id.n].unit_price, item.quantity))

\* (fault: the quantity is left out of the line total)
AddToSubtotal_UnitPrice(sub, item) == JsAdd(sub, item.price_at_sale)

\* subtotal += parseFloat(price_at_sale) * parseInt(quantity)
AddToSubtotal(sub, item) == JsAdd(sub, JsMul(item.price_at_sale, item.quantity))

\* discount_amount = (subtotal * discount_percentage) / 100
DiscountAmount(sub, d) == JsDiv100(JsMul(sub, d))

\* total_amount = subtotal - discount_amount
TotalAmount(sub, discount_amount) == JsSub(sub, discount_amount)

\* (fault: the SELECT takes no row lock)
LockedByOther_NoLock(r, p) == FALSE

\* (fault: the row lock is given up by the UPDATE of the row, before the
\* transaction ends)
LockedByOther_UntilWrite(r, p) ==
    \E o \in Requests \ {r} : p \in locks[o] /\ p \notin DOMAIN txInv[o]

\* (fault: the lock is on the inventory table, not on the row)
LockedByOther_TableLock(r, p) == \E o \in Requests \ {r} : locks[o] # {}

\* a row lock taken by another transaction that has not ended
LockedByOther(r, p) == \E o \in Requests \ {r} : p \in locks[o]

\* the inventory row as transaction r sees it: its own write, else the
\* committed row
StockSeenBy(r, p) == IF p \in DOMAIN txInv[r] THEN txInv[r][p] ELSE inventory[p]

CurrentItem(r) == args[r].items[idx[r]]

\* the parameter discount_percentage = 0: the argument, or 0 when it is omitted
DiscountParam(r) == DefaultTo(args[r].discount_percentage, Num(0))

\* (fault: the error names the sale, not the product)
NotFoundError_WrongSubject(product_id) == Error("not_found", 0, 0, 0)

\* throw new Error(`Inventory record for product ${product_id} not found`)
NotFoundError(product_id) == Error("not_found", product_id, 0, 0)

\* throw new Error(`Insufficient stock for product ${product_id}.
\*                  Available: ${availableStock}, Requested: ${quantity}`)
InsufficientStockError(product_id, availableStock, quantity) ==
    Error("insufficient_stock", product_id, availableStock, quantity)

\* (fault: the error leaves the function without a ROLLBACK)
Throw_NoRollback(r, e) ==
    /\ error' = [error EXCEPT ![r] = e]
    /\ pc' = [pc EXCEPT ![r] = "release"]

\* a throw inside the try block: the catch block is next
Throw(r, e) ==
    /\ error' = [error EXCEPT ![r] = e]
    /\ pc' = [pc EXCEPT ![r] = "rollback"]

\* the requests between their call and their return
InFlight == {o \in Requests : pc[o] \notin {"idle", "done"}}

\* the call: the arguments are bound and pool.connect() is asked
Invoke(r, call) ==
    /\ pc[r] = "idle"
    /\ pc' = [pc EXCEPT ![r] = "connect"]
    /\ args' = [args EXCEPT ![r] = call]
    /\ pre' = [pre EXCEPT ![r] = [store |-> committed, inflight |-> InFlight]]
    /\ UNCHANGED <<http, catalog, now, conn, service, committed, seqs, pool, sale, idx, subtotal, invResult, txInv,
                   txItems, locks, error, ret>>

\* const client = await pool.connect()
Connect(r) ==
    /\ pc[r] = "connect"
    /\ pool > 0
    /\ pool' = pool - 1
    /\ conn' = [conn EXCEPT ![r].held = TRUE]
    /\ pc' = [pc EXCEPT ![r] = "begin"]
    /\ UNCHANGED <<http, catalog, now, service, committed, seqs, locals>>

\* await client.query('BEGIN')
Begin(r) ==
    /\ pc[r] = "begin"
    /\ conn' = [conn EXCEPT ![r].begin = "ok"]
    /\ pc' = [pc EXCEPT ![r] = "insert_sale"]
    /\ UNCHANGED <<http, catalog, now, service, committed, seqs, pool, locals>>

\* the validation of the inputs, then INSERT INTO sales ... VALUES ($1, 0, 0, 0, 0)
InsertSale(r) ==
    /\ pc[r] = "insert_sale"
    /\ IF InvalidId(args[r].user_id)
       THEN Throw(r, Error("invalid_user", 0, 0, 0))
            /\ UNCHANGED <<sale, sale_seq>>
       ELSE IF Len(args[r].items) = 0
       THEN Throw(r, Error("no_items", 0, 0, 0))
            /\ UNCHANGED <<sale, sale_seq>>
       ELSE IF DiscountOutOfRange(DiscountParam(r))
       THEN Throw(r, Error("discount_range", 0, 0, 0))
            /\ UNCHANGED <<sale, sale_seq>>
       ELSE /\ sale' = [sale EXCEPT ![r] =
                          [NoSale EXCEPT !.sale_id = sale_seq,
                                         !.user_id = args[r].user_id.n,
                                         !.sale_date = SaleDateDefault]]
            /\ sale_seq' = sale_seq + 1
            /\ pc' = [pc EXCEPT ![r] = "select"]
            /\ UNCHANGED error
    /\ idx' = [idx EXCEPT ![r] = 1]
    /\ subtotal' = [subtotal EXCEPT ![r] = Num(0)]
    /\ UNCHANGED <<http, catalog, now, conn, service, committed, item_seq, pool, args, invResult, txInv, txItems,
                   locks, ret, pre>>

\* the test of the item's fields, then
\* SELECT quantity_in_stock FROM inventory WHERE product_id = $1 FOR UPDATE,
\* which waits while another transaction holds the lock of the row
SelectForUpdate(r) ==
    /\ pc[r] = "select"
    /\ LET item == CurrentItem(r)
           p == item.product_id.n
       IN IF ItemIncomplete(item)
          THEN /\ Throw(r, Error("item_incomplete", 0, 0, 0))
               /\ UNCHANGED <<invResult, locks>>
          ELSE IF p \notin DOMAIN inventory
          THEN /\ invResult' = [invResult EXCEPT ![r] = NoRows]
               /\ pc' = [pc EXCEPT ![r] = "insert_item"]
               /\ UNCHANGED <<locks, error>>
          ELSE /\ ~LockedByOther(r, p)
               /\ locks' = [locks EXCEPT ![r] = @ \cup {p}]
               /\ invResult' = [invResult EXCEPT ![r] = <<StockSeenBy(r, p)>>]
               /\ pc' = [pc EXCEPT ![r] = "insert_item"]
               /\ UNCHANGED error
    /\ UNCHANGED <<http, catalog, now, conn, service, committed, seqs, pool, args, sale, idx, subtotal, txInv,
                   txItems, ret, pre>>

\* the tests of the selected row, then INSERT INTO sale_items
InsertSaleItem(r) ==
    /\ pc[r] = "insert_item"
    /\ LET item == CurrentItem(r)
           p == item.product_id.n
           quantity == item.quantity.n
       IN IF Len(invResult[r]) = 0
          THEN /\ Throw(r, NotFoundError(p))
               /\ UNCHANGED <<txItems, item_seq>>
          ELSE IF InsufficientStock(invResult[r][1], quantity)
          THEN /\ Throw(r, InsufficientStockError(p, invResult[r][1], quantity))
               /\ UNCHANGED <<txItems, item_seq>>
          ELSE /\ txItems' = [txItems EXCEPT ![r] = @ \cup
                      {[sale_item_id |-> item_seq, sale_id |-> sale[r].sale_id,
                        product_id |-> p, quantity |-> quantity,
                        price_at_sale |-> item.price_at_sale.n]}]
               /\ item_seq' = item_seq + 1
               /\ pc' = [pc EXCEPT ![r] = "update_inventory"]
               /\ UNCHANGED error
    /\ UNCHANGED <<http, catalog, now, conn, service, committed, sale_seq, pool, args, sale, idx, subtotal, invResult,
                   txInv, locks, ret, pre>>

\* UPDATE inventory SET quantity_in_stock = quantity_in_stock - $1, then
\* subtotal += ... and the next round of the loop
UpdateInventory(r) ==
    /\ pc[r] = "update_inventory"
    /\ LET item == CurrentItem(r)
           p == item.product_id.n
       IN /\ txInv' = [txInv EXCEPT ![r] =
                 (p :> DecrementStock(StockSeenBy(r, p), item.quantity.n)) @@ @]
          /\ subtotal' = [subtotal EXCEPT ![r] = AddToSubtotal(@, item)]
    /\ idx' = [idx EXCEPT ![r] = @ + 1]
    /\ pc' = [pc EXCEPT ![r] =
                 IF idx[r] < Len(args[r].items) THEN "select" ELSE "update_sale"]
    /\ UNCHANGED <<http, catalog, now, conn, service, committed, seqs, pool, args, sale, invResult, txItems, locks,
                   error, ret, pre>>

\* the discount and the total, then UPDATE sales SET subtotal = $1, ... RETURNING
UpdateSale(r) ==
    /\ pc[r] = "update_sale"
    /\ LET d == DiscountParam(r)
           discount_amount == DiscountAmount(subtotal[r], d)
           total_amount == TotalAmount(subtotal[r], discount_amount)
           row == [sale[r] EXCEPT !.subtotal = subtotal[r],
                                  !.discount_percentage = d,
                                  !.discount_amount = discount_amount,
                                  !.total_amount = total_amount]
       IN /\ sale' = [sale EXCEPT ![r] = row]
          /\ ret' = [ret EXCEPT ![r] = row]
    /\ pc' = [pc EXCEPT ![r] = "commit"]
    /\ UNCHANGED <<http, catalog, now, conn, service, committed, seqs, pool, args, idx, subtotal, invResult, txInv,
                   txItems, locks, error, pre>>

\* the committed inventory once transaction r's writes are applied
InventoryAfterCommit(r) ==
    [p \in DOMAIN inventory |->
        IF p \in DOMAIN txInv[r] THEN txInv[r][p] ELSE inventory[p]]

\* await client.query('COMMIT'): the rows of the transaction become the
\* committed ones and its row locks are released
Commit(r) ==
    /\ pc[r] = "commit"
    /\ inventory' = InventoryAfterCommit(r)
    /\ sales' = sales \cup {sale[r]}
    /\ sale_items' = sale_items \cup txItems[r]
    /\ txInv' = [txInv EXCEPT ![r] = <<>>]
    /\ txItems' = [txItems EXCEPT ![r] = {}]
    /\ locks' = [locks EXCEPT ![r] = {}]
    /\ conn' = [conn EXCEPT ![r].commit = "ok"]
    /\ pc' = [pc EXCEPT ![r] = "release"]
    /\ UNCHANGED <<http, catalog, now, service, seqs, pool, args, sale, idx, subtotal, invResult,
                   error, ret, pre>>

\* (fault: the inventory writes of the transaction outlive the rollback)
Rollback_KeepsInventory(r) ==
    /\ pc[r] = "rollback"
    /\ inventory' = InventoryAfterCommit(r)
    /\ txInv' = [txInv EXCEPT ![r] = <<>>]
    /\ txItems' = [txItems EXCEPT ![r] = {}]
    /\ locks' = [locks EXCEPT ![r] = {}]
    /\ conn' = [conn EXCEPT ![r].rollback = "ok"]
    /\ pc' = [pc EXCEPT ![r] = "release"]
    /\ UNCHANGED <<http, catalog, now, service, sales, sale_items, seqs, pool, args, sale, idx,
                   subtotal, invResult, error, ret, pre>>

\* catch: await client.query('ROLLBACK'): the rows of the transaction are
\* dropped and its row locks are released
Rollback(r) ==
    /\ pc[r] = "rollback"
    /\ txInv' = [txInv EXCEPT ![r] = <<>>]
    /\ txItems' = [txItems EXCEPT ![r] = {}]
    /\ locks' = [locks EXCEPT ![r] = {}]
    /\ conn' = [conn EXCEPT ![r].rollback = "ok"]
    /\ pc' = [pc EXCEPT ![r] = "release"]
    /\ UNCHANGED <<http, catalog, now, service, committed, seqs, pool, args, sale, idx, subtotal,
                   invResult, error, ret, pre>>

\* what leaves the try statement: the exception of a ROLLBACK that failed
\* inside the catch block, else the Error that the catch block builds
\* around the message of the error it caught, else the result
Thrown(r) ==
    IF conn[r].rollback = "failed" THEN "raw"
    ELSE IF error[r] # NoError THEN "wrapped"
    ELSE "none"

\* (fault: the connection is released after the catch block, not in a
\* finally block, so that an exception of the catch block skips it)
Release_AfterCatch(r) ==
    /\ pc[r] = "release"
    /\ IF conn[r].rollback = "failed"
       THEN UNCHANGED pool /\ conn' = [conn EXCEPT ![r].thrown = Thrown(r)]
       ELSE /\ pool' = pool + 1
            /\ conn' = [conn EXCEPT ![r].held = FALSE, ![r].releases = @ + 1,
                                    ![r].thrown = Thrown(r)]
    /\ pc' = [pc EXCEPT ![r] = "done"]
    /\ UNCHANGED <<http, catalog, now, service, committed, seqs, locals>>

\* (fault: the connection is released after the COMMIT only, not in a
\* finally block)
Release_OnSuccessOnly(r) ==
    /\ pc[r] = "release"
    /\ IF error[r] # NoError
       THEN UNCHANGED pool /\ conn' = [conn EXCEPT ![r].thrown = Thrown(r)]
       ELSE /\ pool' = pool + 1
            /\ conn' = [conn EXCEPT ![r].held = FALSE, ![r].releases = @ + 1,
                                    ![r].thrown = Thrown(r)]
    /\ pc' = [pc EXCEPT ![r] = "done"]
    /\ UNCHANGED <<http, catalog, now, service, committed, seqs, locals>>

\* finally: client.release(), then the DTO is returned or the error thrown
Release(r) ==
    /\ pc[r] = "release"
    /\ pool' = pool + 1
    /\ conn' = [conn EXCEPT ![r].held = FALSE, ![r].releases = @ + 1,
                            ![r].thrown = Thrown(r)]
    /\ pc' = [pc EXCEPT ![r] = "done"]
    /\ UNCHANGED <<http, catalog, now, service, committed, seqs, locals>>

createSaleWithItems(r) ==
    \/ Connect(r)
    \/ Begin(r)
    \/ InsertSale(r)
    \/ SelectForUpdate(r)
    \/ InsertSaleItem(r)
    \/ UpdateInventory(r)
    \/ UpdateSale(r)
    \/ Commit(r)
    \/ Rollback(r)
    \/ Release(r)

(***************************************************************************)
(* Spec: the requests invoke createSaleWithItems once each and run         *)
(* concurrently.                                                           *)
(***************************************************************************)
Next ==
    \/ \E r \in Requests : pc[r] = "idle" /\ \E call \in ConcurrentCalls : Invoke(r, call)
    \/ \E r \in Requests : createSaleWithItems(r)

Spec == Init /\ [][Next]_vars

(***************************************************************************)
(* SpecAlone: one invocation at a time, over every input.                  *)
(***************************************************************************)
NextAlone ==
    \/ pc["r1"] = "idle" /\ \E call \in AllCalls : Invoke("r1", call)
    \/ createSaleWithItems("r1")

SpecAlone == Init /\ [][NextAlone]_vars

(***************************************************************************)
(* The single-statement operations of SalesServices over SalesRepository.  *)
(* Each statement runs on a pooled connection in its own transaction.      *)
(***************************************************************************)

\* total_amount == null || isNaN(total_amount), and the same test of
\* discount_percentage
NullOrNaN(x) == x = Undefined \/ x = Null \/ IsNaN(x)

SaleRow(sale_id) == CHOOSE row \in sales : row.sale_id = sale_id
SaleExists(sale_id) == \E row \in sales : row.sale_id = sale_id

\* (fault: the UPDATE has no WHERE clause)
UpdateRow_NoWhere(sale_id, row) ==
    {[s EXCEPT !.subtotal = row.subtotal,
               !.discount_percentage = row.discount_percentage,
               !.discount_amount = row.discount_amount,
               !.total_amount = row.total_amount] : s \in sales}

\* UPDATE sales SET ... WHERE sale_id = $n: the rows with the row of sale_id
\* replaced
UpdateRow(sale_id, row) == {IF s.sale_id = sale_id THEN row ELSE s : s \in sales}

\* SalesServices.createSale -> SalesRepository.create
createSale(user_id) ==
    /\ caller.pc = "idle"
    /\ ops < MaxOps
    /\ ops' = ops + 1
    /\ IF InvalidId(user_id)
       THEN /\ caller' = Outcome("createSale", "invalid_user")
            /\ UNCHANGED <<sales, sale_seq>>
       ELSE /\ sales' = sales \cup
                   {[NoSale EXCEPT !.sale_id = sale_seq, !.user_id = user_id.n,
                                   !.sale_date = SaleDateDefault]}
            /\ sale_seq' = sale_seq + 1
            /\ caller' = Outcome("createSale", "none")
    /\ UNCHANGED <<http, catalog, now, conn, inventory, sale_items, item_seq, pool, pc, locals>>

\* SalesServices.updateSaleTotal -> SalesRepository.updateTotalAmount
updateSaleTotal(sale_id, total_amount) ==
    /\ caller.pc = "idle"
    /\ ops < MaxOps
    /\ ops' = ops + 1
    /\ IF InvalidId(sale_id)
       THEN /\ caller' = Outcome("updateSaleTotal", "invalid_sale")
            /\ UNCHANGED sales
       ELSE IF NullOrNaN(total_amount)
       THEN /\ caller' = Outcome("updateSaleTotal", "invalid_total")
            /\ UNCHANGED sales
       ELSE /\ sales' = IF SaleExists(sale_id.n)
                        THEN UpdateRow(sale_id.n,
                                 [SaleRow(sale_id.n) EXCEPT !.total_amount = total_amount])
                        ELSE sales
            /\ caller' = Outcome("updateSaleTotal", "none")
    /\ UNCHANGED <<http, catalog, now, conn, inventory, sale_items, seqs, pool, pc, locals>>

\* (fault: the discount is taken from the discounted total)
DiscountBase_Total(currentSale) == currentSale.total_amount

\* currentSale.subtotal, the base of the discount
DiscountBase(currentSale) == currentSale.subtotal

\* SalesServices.applyDiscount up to its second await: the tests of the
\* arguments, then SalesRepository.findById
applyDiscount(sale_id, discount_percentage) ==
    /\ caller.pc = "idle"
    /\ ops < MaxOps
    /\ ops' = ops + 1
    /\ LET failed(e, queries) ==
               [Outcome("applyDiscount", e) EXCEPT
                   !.args = <<sale_id, discount_percentage>>, !.queries = queries]
       IN caller' =
            IF InvalidId(sale_id)
            THEN failed("invalid_sale", 0)
            ELSE IF NullOrNaN(discount_percentage)
            THEN failed("invalid_discount", 0)
            ELSE IF DiscountOutOfRange(discount_percentage)
            THEN failed("discount_range", 0)
            ELSE IF ~SaleExists(sale_id.n)
            THEN failed("not_found", 1)
            ELSE [Outcome("applyDiscount", "none") EXCEPT
                     !.pc = "update_with_discount",
                     !.args = <<sale_id, discount_percentage>>,
                     !.queries = 1,
                     !.sale_id = sale_id.n,
                     !.discount_percentage = discount_percentage,
                     !.subtotal = DiscountBase(SaleRow(sale_id.n)),
                     !.applied =
                         IF /\ caller.applied.sale_id = sale_id.n
                            /\ caller.applied.discount_percentage = discount_percentage
                         THEN caller.applied ELSE NoApplied]
    /\ UNCHANGED <<http, catalog, now, conn, committed, seqs, pool, pc, locals>>

\* SalesRepository.updateWithDiscount, with the subtotal that findById read
updateWithDiscount ==
    /\ caller.pc = "update_with_discount"
    /\ LET discount_amount == DiscountAmount(caller.subtotal, caller.discount_percentage)
           total_amount == TotalAmount(caller.subtotal, discount_amount)
           row == IF SaleExists(caller.sale_id)
                  THEN [SaleRow(caller.sale_id) EXCEPT
                           !.subtotal = caller.subtotal,
                           !.discount_percentage = caller.discount_percentage,
                           !.discount_amount = discount_amount,
                           !.total_amount = total_amount]
                  ELSE NoSale
       IN /\ sales' = IF SaleExists(caller.sale_id)
                      THEN UpdateRow(caller.sale_id, row) ELSE sales
          /\ caller' = [Outcome("applyDiscount", "none") EXCEPT
                           !.args = caller.args,
                           !.queries = 2,
                           !.sale_id = caller.sale_id,
                           !.discount_percentage = caller.discount_percentage,
                           !.applied = [sale_id |-> caller.sale_id,
                                        discount_percentage |-> caller.discount_percentage,
                                        row |-> row,
                                        times |-> caller.applied.times + 1]]
    /\ UNCHANGED <<http, catalog, now, conn, inventory, sale_items, seqs, pool, pc, locals, ops>>

\* the arguments of the service operations
OpIds == {Num(n) : n \in 0..2}
OpTotals == {Undefined, Num(0), PriceFive}
OpDiscounts == AllDiscounts \cup {Num(0), Num(20), Num(100)}

(***************************************************************************)
(* SpecOps: the service operations in any order, next to one               *)
(* createSaleWithItems invocation.                                         *)
(***************************************************************************)
NextOps ==
    \/ pc["r1"] = "idle" /\ \E call \in ConcurrentCalls : Invoke("r1", call)
    \/ createSaleWithItems("r1")
    \/ \E u \in OpIds : createSale(u)
    \/ \E id \in OpIds, t \in OpTotals : updateSaleTotal(id, t)
    \/ \E id \in OpIds, d \in OpDiscounts : applyDiscount(id, d)
    \/ updateWithDiscount

SpecOps == Init /\ [][NextOps]_vars

(***************************************************************************)
(* Strings of a request: sequences of characters, with the conversions     *)
(* that the source applies to them.                                        *)
(***************************************************************************)
Digits == <<"0", "1", "2", "3", "4", "5", "6", "7", "8", "9">>

\* \d
IsDigit(c) == \E i \in DOMAIN Digits : Digits[i] = c
DigitValue(c) == (CHOOSE i \in DOMAIN Digits : Digits[i] = c) - 1

RECURSIVE LeadingDigits(_)
\* the longest prefix of str made of digits
LeadingDigits(str) ==
    IF str = <<>> \/ ~IsDigit(Head(str)) THEN <<>>
    ELSE <<Head(str)>> \o LeadingDigits(Tail(str))

RECURSIVE DecimalValue(_)
\* the number that a sequence of digits writes
DecimalValue(ds) ==
    IF ds = <<>> THEN 0
    ELSE DecimalValue(SubSeq(ds, 1, Len(ds) - 1)) * 10 + DigitValue(ds[Len(ds)])

\* parseInt(str): an optional sign and the digits that follow it, NaN when
\* there is no digit; an absent field is the empty string here, and
\* parseInt(undefined) is NaN as well
ParseInt(str) ==
    LET signed == str # <<>> /\ Head(str) \in {"-", "+"}
        ds == LeadingDigits(IF signed THEN Tail(str) ELSE str)
    IN IF ds = <<>> THEN NaN
       ELSE IF signed /\ Head(str) = "-" THEN Num(0 - DecimalValue(ds))
       ELSE Num(DecimalValue(ds))

\* x || 0
OrZero(x) == IF Falsy(x) THEN Num(0) ELSE x

\* a >= b
JsGe(a, b) == IsNum(a) /\ IsNum(b) /\ a.n >= b.n

(***************************************************************************)
(* Inventory records: InventoryRepository under InventoryServices, as the  *)
(* handlers productsCreate and inventoryUpdate of PagesController reach    *)
(* them.  Each repository method is one statement in its own transaction.  *)
(***************************************************************************)

\* INSERT INTO inventory (product_id, quantity_in_stock) VALUES ($1, $2)
InventoryRepository_create(inv, product_id, quantity_in_stock) ==
    (product_id :> quantity_in_stock) @@ inv

\* UPDATE inventory SET quantity_in_stock = $1 WHERE product_id = $2
InventoryRepository_update(inv, product_id, quantity_in_stock) ==
    [p \in DOMAIN inv |-> IF p = product_id THEN quantity_in_stock ELSE inv[p]]

\* an UPDATE of the row of product p waits for the row lock
RowLocked(p) == \E o \in Requests : p \in locks[o]

\* InventoryServices: the identifier and the required field are tested,
\* then the repository is called
ServiceResult(e, inv) == [error |-> e, inventory |-> inv]

InventoryServices_createInventoryRecord(inv, product_id, quantity_in_stock) ==
    IF InvalidId(product_id) THEN ServiceResult("invalid_product", inv)
    ELSE IF NullOrNaN(quantity_in_stock) THEN ServiceResult("missing_fields", inv)
    ELSE ServiceResult("none",
             InventoryRepository_create(inv, product_id.n, quantity_in_stock.n))

InventoryServices_updateInventory(inv, product_id, quantity_in_stock) ==
    IF InvalidId(product_id) THEN ServiceResult("invalid_product", inv)
    ELSE IF NullOrNaN(quantity_in_stock) THEN ServiceResult("missing_fields", inv)
    ELSE ServiceResult("none",
             InventoryRepository_update(inv, product_id.n, quantity_in_stock.n))

\* ProductsServices.createProduct: !productData.unit_price, and the same
\* test of the other required fields, which the requests of the model fill
MissingProductFields(unit_price) == Falsy(unit_price)

\* PagesController.productsCreate: the product is created, then its
\* inventory record when a quantity that parses to zero or more is given
productsCreate(unit_price, quantity_in_stock) ==
    /\ caller.pc = "idle"
    /\ ops < MaxOps
    /\ ops' = ops + 1
    /\ IF MissingProductFields(unit_price)
       THEN /\ caller' = Outcome("productsCreate", "missing_fields")
            /\ UNCHANGED <<products, product_seq, inventory>>
       ELSE /\ products' = (product_seq :> Product(unit_price, "available")) @@ products
            /\ product_seq' = product_seq + 1
            /\ LET stockQuantity == OrZero(ParseInt(quantity_in_stock))
                   result ==
                       IF product_seq \in DOMAIN inventory
                       THEN InventoryServices_updateInventory(
                                inventory, Num(product_seq), stockQuantity)
                       ELSE InventoryServices_createInventoryRecord(
                                inventory, Num(product_seq), stockQuantity)
               IN IF quantity_in_stock # <<>> /\ JsGe(stockQuantity, Num(0))
                  THEN /\ inventory' = result.inventory
                       /\ caller' = Outcome("productsCreate", result.error)
                  ELSE /\ UNCHANGED inventory
                       /\ caller' = Outcome("productsCreate", "none")
    /\ UNCHANGED <<http, now, conn, sales, sale_items, seqs, pool, pc, locals>>

\* PagesController.inventoryUpdate:
\* inventoryService.updateInventory(product_id, parseInt(quantity_in_stock))
inventoryUpdate(product_id, quantity_in_stock) ==
    /\ caller.pc = "idle"
    /\ ops < MaxOps
    /\ ops' = ops + 1
    /\ LET result == InventoryServices_updateInventory(
                         inventory, product_id, ParseInt(quantity_in_stock))
       IN /\ result.error = "none" => ~RowLocked(product_id.n)
          /\ inventory' = result.inventory
          /\ caller' = Outcome("inventoryUpdate", result.error)
    /\ UNCHANGED <<http, catalog, now, conn, sales, sale_items, seqs, pool, pc, locals>>

\* the quantity_in_stock field of a form: absent, 7, 0, -5 and not a number
StockFields == {<<>>, <<"7">>, <<"0">>, <<"-", "5">>, <<"a", "b">>}

(***************************************************************************)
(* SpecInventory: the inventory handlers next to one createSaleWithItems   *)
(* invocation.                                                             *)
(***************************************************************************)
NextInventory ==
    \/ pc["r1"] = "idle" /\ \E call \in ConcurrentCalls : Invoke("r1", call)
    \/ createSaleWithItems("r1")
    \/ \E price \in {Num(0), PriceFive}, q \in StockFields : productsCreate(price, q)
    \/ \E id \in OpIds, q \in StockFields : inventoryUpdate(id, q)

SpecInventory == Init /\ [][NextInventory]_vars

(***************************************************************************)
(* Products: ProductsServices.updateProduct over ProductsRepository.update,*)
(* one statement in its own transaction.                                   *)
(***************************************************************************)

\* the fields of an update; a field that the caller leaves out is undefined
Updates(unit_price, status) == [unit_price |-> unit_price, status |-> status]

\* Object.keys(updates).length === 0
NoKeys(updates) == updates.unit_price = Undefined /\ updates.status = "undefined"

\* UPDATE products SET product_name=$1, ..., unit_price=$3, ..., status=$5
\* WHERE product_id=$6: every column is set from the fields passed
ProductsRepository_update(rows, product_id, updates) ==
    [p \in DOMAIN rows |->
        IF p = product_id
        THEN Product(updates.unit_price, updates.status)
        ELSE rows[p]]

\* the requests whose transaction is open
InTransaction ==
    {o \in Requests :
        pc[o] \in {"insert_sale", "select", "insert_item", "update_inventory",
                   "update_sale", "commit"}}

\* ProductsServices.updateProduct
updateProduct(product_id, updates) ==
    /\ caller.pc = "idle"
    /\ IF InvalidId(product_id)
       THEN /\ caller' = Outcome("updateProduct", "invalid_product")
            /\ UNCHANGED products
       ELSE IF NoKeys(updates)
       THEN /\ caller' = Outcome("updateProduct", "no_data")
            /\ UNCHANGED products
       ELSE /\ products' = ProductsRepository_update(products, product_id.n, updates)
            /\ caller' = [Outcome("updateProduct", "none") EXCEPT
                             !.args = <<product_id, updates>>,
                             !.queries = 1,
                             !.during = InTransaction]
    /\ UNCHANGED <<http, product_seq, now, conn, committed, seqs, pool, pc, locals, ops>>

\* the updates of the model: a price, no price, no field at all
PriceUpdates ==
    {Updates(price, "available") : price \in {PriceFive, PriceFiveCents, Undefined}}
        \cup {Updates(Undefined, "undefined")}

(***************************************************************************)
(* SpecPrices: product updates next to one createSaleWithItems invocation. *)
(***************************************************************************)
NextPrices ==
    \/ pc["r1"] = "idle" /\ \E call \in ConcurrentCalls : Invoke("r1", call)
    \/ createSaleWithItems("r1")
    \/ \E id \in OpIds, updates \in PriceUpdates : updateProduct(id, updates)

SpecPrices == Init /\ [][NextPrices]_vars

(***************************************************************************)
(* Storage failures: any awaited storage call may reject.                  *)
(***************************************************************************)

\* the statement that request r awaits next is reached: the synchronous
\* tests before it pass
StatementReached(r) ==
    CASE pc[r] = "insert_sale" ->
             /\ ~InvalidId(args[r].user_id)
             /\ Len(args[r].items) > 0
             /\ ~DiscountOutOfRange(DiscountParam(r))
      [] pc[r] = "select" -> ~ItemIncomplete(CurrentItem(r))
      [] pc[r] = "insert_item" ->
             /\ Len(invResult[r]) > 0
             /\ ~InsufficientStock(invResult[r][1], CurrentItem(r).quantity.n)
      [] OTHER -> pc[r] \in {"begin", "update_inventory", "update_sale", "commit"}

\* pool.connect() rejects: the call stands before the try block, so its
\* exception leaves the function as it is and no connection is held
ConnectFails(r) ==
    /\ pc[r] = "connect"
    /\ error' = [error EXCEPT ![r] = Error("connect", 0, 0, 0)]
    /\ conn' = [conn EXCEPT ![r].thrown = "raw"]
    /\ pc' = [pc EXCEPT ![r] = "done"]
    /\ UNCHANGED <<http, catalog, now, service, committed, seqs, pool, args, sale, idx,
                   subtotal, invResult, txInv, txItems, locks, ret, pre>>

\* a statement of the try block rejects, BEGIN and COMMIT included: the
\* catch block is next; a COMMIT that rejects commits nothing
StatementFails(r) ==
    /\ StatementReached(r)
    /\ Throw(r, Error("storage", 0, 0, 0))
    /\ conn' = [conn EXCEPT
                   ![r].begin = IF pc[r] = "begin" THEN "failed" ELSE @,
                   ![r].commit = IF pc[r] = "commit" THEN "failed" ELSE @]
    /\ UNCHANGED <<http, catalog, now, service, committed, seqs, pool, args, sale, idx,
                   subtotal, invResult, txInv, txItems, locks, ret, pre>>

\* catch: ROLLBACK rejects and its exception leaves the catch block before
\* the throw of the new Error; the finally block is next.  The store ends a
\* transaction whose connection is lost: its rows are dropped and its row
\* locks released.
RollbackFails(r) ==
    /\ pc[r] = "rollback"
    /\ txInv' = [txInv EXCEPT ![r] = <<>>]
    /\ txItems' = [txItems EXCEPT ![r] = {}]
    /\ locks' = [locks EXCEPT ![r] = {}]
    /\ conn' = [conn EXCEPT ![r].rollback = "failed"]
    /\ pc' = [pc EXCEPT ![r] = "release"]
    /\ UNCHANGED <<http, catalog, now, service, committed, seqs, pool, args, sale, idx, subtotal,
                   invResult, error, ret, pre>>

\* a method of each repository; every method of the three is one
\* pool.query inside the same try/catch
RepositoryMethods ==
    {"SalesRepository.findBetweenDates", "ProductsRepository.update",
     "InventoryRepository.update"}

\* pool.query rejects inside a repository method: the catch block throws
\* new Error(`Failed to ...: ${error.message}`)
RepositoryFails(method) ==
    /\ caller.pc = "idle"
    /\ caller' = Outcome(method, "storage")
    /\ UNCHANGED <<http, catalog, now, conn, committed, seqs, pool, pc, locals, ops>>

\* the calls of the requests of SpecFaults: 5 of product 1, once or more
FaultItems == {Item(Num(1), Num(5), PriceFive)}
FaultCalls == {Call(Num(1), its, Num(10)) : its \in ItemLists(FaultItems) \ {<<>>}}

(***************************************************************************)
(* SpecFaults: the requests run createSaleWithItems concurrently and the   *)
(* service operations run next to them, over a store any call to which may *)
(* reject.                                                                 *)
(***************************************************************************)
NextFaults ==
    \/ \E r \in Requests : pc[r] = "idle" /\ \E call \in FaultCalls : Invoke(r, call)
    \/ \E r \in Requests : createSaleWithItems(r)
    \/ \E r \in Requests : ConnectFails(r)
    \/ \E r \in Requests : StatementFails(r)
    \/ \E r \in Requests : RollbackFails(r)
    \/ \E method \in RepositoryMethods : RepositoryFails(method)

SpecFaults == Init /\ [][NextFaults]_vars

(***************************************************************************)
(* The date-range query: SalesServices.getSalesBetweenDates over           *)
(* SalesRepository.findBetweenDates.  A date of a request is a string, a   *)
(* date of the store a record of year, month and day.                      *)
(***************************************************************************)

\* /^\d{2}\/\d{2}\/\d{4}$/.test(str)
MatchesDateRegex(str) ==
    /\ Len(str) = 10
    /\ str[3] = "/" /\ str[6] = "/"
    /\ \A i \in {1, 2, 4, 5, 7, 8, 9, 10} : IsDigit(str[i])

\* TO_DATE(str, 'DD/MM/YYYY') of a string that matches the pattern
ToDate(str) ==
    [year |-> DecimalValue(SubSeq(str, 7, 10)),
     month |-> DecimalValue(SubSeq(str, 4, 5)),
     day |-> DecimalValue(SubSeq(str, 1, 2))]

DaysInMonth(year, month) ==
    IF month \in {4, 6, 9, 11} THEN 30
    ELSE IF month # 2 THEN 31
    ELSE IF year % 4 = 0 /\ (year % 100 # 0 \/ year % 400 = 0) THEN 29
    ELSE 28

\* the fields are those of a day of the calendar; TO_DATE raises
\* "date/time field value out of range" otherwise
DateInRange(date) ==
    /\ date.month \in 1..12
    /\ date.day >= 1 /\ date.day <= DaysInMonth(date.year, date.month)

\* sale_date::date
DateOf(ts) == [year |-> ts.year, month |-> ts.month, day |-> ts.day]

\* a <= b of two timestamps
TimestampLe(a, b) ==
    \/ a.year < b.year
    \/ a.year = b.year /\ a.month < b.month
    \/ a.year = b.year /\ a.month = b.month /\ a.day < b.day
    \/ a.year = b.year /\ a.month = b.month /\ a.day = b.day /\ a.time <= b.time

\* a date as the timestamp of its midnight
Midnight(date) == Timestamp(date.year, date.month, date.day, 0)

\* a <= b of two dates
DateLe(a, b) == TimestampLe(Midnight(a), Midnight(b))

\* (fault: the timestamp is compared, not its date, so that the last day
\* of the window ends at its midnight)
InWindow_NoCast(sale_date, startDate, endDate) ==
    /\ TimestampLe(Midnight(startDate), sale_date)
    /\ TimestampLe(sale_date, Midnight(endDate))

\* sale_date::date BETWEEN TO_DATE($1, 'DD/MM/YYYY') AND TO_DATE($2, 'DD/MM/YYYY')
InWindow(sale_date, startDate, endDate) ==
    DateLe(startDate, DateOf(sale_date)) /\ DateLe(DateOf(sale_date), endDate)

RECURSIVE OrderBySaleDateDesc(_)
\* ORDER BY sale_date DESC: the latest row first; rows of one instant come
\* in an order of the store's choosing
OrderBySaleDateDesc(rows) ==
    IF rows = {} THEN <<>>
    ELSE LET latest == CHOOSE row \in rows :
                           \A other \in rows :
                               TimestampLe(other.sale_date, row.sale_date)
         IN <<latest>> \o OrderBySaleDateDesc(rows \ {latest})

\* the decimal writing of n with a given number of digits
RECURSIVE Decimal(_, _)
Decimal(n, digits) ==
    IF digits = 0 THEN <<>>
    ELSE Decimal(n \div 10, digits - 1) \o <<Digits[(n % 10) + 1]>>

\* TO_CHAR(sale_date, 'DD/MM/YYYY')
ToChar(ts) ==
    Decimal(ts.day, 2) \o <<"/">> \o Decimal(ts.month, 2) \o <<"/">>
        \o Decimal(ts.year, 4)

\* SalesServices.getSalesBetweenDates up to its await: the tests of the
\* two strings
getSalesBetweenDates(startDate, endDate) ==
    /\ caller.pc = "idle"
    /\ LET outcome(e) ==
               [Outcome("getSalesBetweenDates", e) EXCEPT
                   !.args = <<startDate, endDate>>]
       IN caller' =
            IF startDate = <<>> \/ endDate = <<>>
            THEN outcome("dates_required")
            ELSE IF ~MatchesDateRegex(startDate) \/ ~MatchesDateRegex(endDate)
            THEN outcome("date_format")
            ELSE [outcome("none") EXCEPT !.pc = "find_between_dates"]
    /\ UNCHANGED <<http, catalog, now, conn, committed, seqs, pool, pc, locals, ops>>

\* SalesRepository.findBetweenDates: the query, whose TO_DATE raises for a
\* day or a month out of range, and the rows it returns
findBetweenDates ==
    /\ caller.pc = "find_between_dates"
    /\ LET startDate == ToDate(caller.args[1])
           endDate == ToDate(caller.args[2])
           found == {row \in sales : InWindow(row.sale_date, startDate, endDate)}
           ordered == OrderBySaleDateDesc(found)
           outcome(e) ==
               [Outcome("getSalesBetweenDates", e) EXCEPT
                   !.args = caller.args, !.queries = 1]
       IN caller' =
            IF ~DateInRange(startDate) \/ ~DateInRange(endDate)
            THEN outcome("storage")
            ELSE [outcome("none") EXCEPT
                     !.rows = [i \in DOMAIN ordered |->
                                  [ordered[i] EXCEPT
                                      !.sale_date = ToChar(ordered[i].sale_date)]]]
    /\ UNCHANGED <<http, catalog, now, conn, committed, seqs, pool, pc, locals, ops>>

\* time passes
Tick ==
    /\ now < Len(Clock)
    /\ now' = now + 1
    /\ UNCHANGED <<http, catalog, conn, service, committed, seqs, pool, pc, locals>>

\* the strings of the model: the first and the last day of January 2024,
\* a day and a month that do not exist, one digit where two are due,
\* dashes for slashes, and no string
FirstOfJanuary == <<"0", "1", "/", "0", "1", "/", "2", "0", "2", "4">>
LastOfJanuary == <<"3", "1", "/", "0", "1", "/", "2", "0", "2", "4">>
NoSuchDay == <<"9", "9", "/", "9", "9", "/", "2", "0", "2", "4">>
DateStrings ==
    {FirstOfJanuary, LastOfJanuary, NoSuchDay,
     <<"1", "/", "1", "/", "2", "0", "2", "4">>,
     <<"0", "1", "-", "0", "1", "-", "2", "0", "2", "4">>,
     <<>>}

\* the queries of the model: every string as the start of a window that
\* ends with January, every string as the end of one that starts with it,
\* and the window whose ends are swapped
DateQueries ==
    {q \in DateStrings \X DateStrings :
        q[1] = FirstOfJanuary \/ q[2] = LastOfJanuary}
        \cup {<<LastOfJanuary, FirstOfJanuary>>}

\* the calls of the request of SpecDates: a sale within the stock and one
\* beyond it
DateCalls ==
    {Call(Num(1), <<Item(Num(1), Num(5), PriceFive)>>, Num(10)),
     Call(Num(1), <<Item(Num(2), Num(5), PriceFiveCents)>>, Num(10))}

(***************************************************************************)
(* SpecDates: sales are created as time passes, by createSale and by one   *)
(* createSaleWithItems invocation, and the date-range query is asked.      *)
(***************************************************************************)
NextDates ==
    \/ Tick
    \/ pc["r1"] = "idle" /\ \E call \in DateCalls : Invoke("r1", call)
    \/ createSaleWithItems("r1")
    \/ createSale(Num(1))
    \/ \E q \in DateQueries : getSalesBetweenDates(q[1], q[2])
    \/ findBetweenDates

SpecDates == Init /\ [][NextDates]_vars

(***************************************************************************)
(* SpecLive: the requests run concurrently over a pool of 1..MaxPool       *)
(* connections, every request that can take a step eventually takes one,   *)
(* and the store ends a cycle of lock waits.  The statements are awaited   *)
(* promises: the event loop resumes each request once its statement has    *)
(* an answer, which is the weak fairness of the steps of each request.     *)
(***************************************************************************)

\* request r is at its SELECT ... FOR UPDATE of a row that request o has
\* locked
WaitsFor(r, o) ==
    /\ pc[r] = "select"
    /\ ~ItemIncomplete(CurrentItem(r))
    /\ CurrentItem(r).product_id.n \in locks[o]

\* request r waits for a request that waits for r
InWaitCycle(r) == \E o \in Requests \ {r} : WaitsFor(r, o) /\ WaitsFor(o, r)

\* the store finds the cycle of lock waits and fails the SELECT ... FOR
\* UPDATE of one of its transactions: client.query rejects, the catch block
\* is next
DeadlockDetected(r) ==
    /\ InWaitCycle(r)
    /\ Throw(r, Error("deadlock", CurrentItem(r).product_id.n, 0, 0))
    /\ UNCHANGED <<http, catalog, now, conn, service, committed, seqs, pool, args, sale, idx,
                   subtotal, invResult, txInv, txItems, locks, ret, pre>>

\* the items of the invocations: 5 of the 10 of product 1, 2 of the 2 of
\* product 2
LiveItems == {Item(Num(1), Num(5), PriceFive), Item(Num(2), Num(2), PriceFive)}

LiveCalls == {Call(Num(1), its, Num(10)) : its \in ItemLists(LiveItems) \ {<<>>}}

InitLive == \E n \in 1..MaxPool : InitPool(n)

NextLive ==
    \/ \E r \in Requests : pc[r] = "idle" /\ \E call \in LiveCalls : Invoke(r, call)
    \/ \E r \in Requests : createSaleWithItems(r)
    \/ \E r \in Requests : DeadlockDetected(r)

FairLive ==
    /\ \A r \in Requests : WF_vars(createSaleWithItems(r))
    /\ WF_vars(\E r \in Requests : DeadlockDetected(r))

SpecLive == InitLive /\ [][NextLive]_vars /\ FairLive

(***************************************************************************)
(* SpecPages: the handlers of PagesController that open a session,         *)
(* register a user, place an order and show a receipt, one request at a    *)
(* time.  A handler with several awaited service calls is one action per   *)
(* call.                                                                   *)
(***************************************************************************)

\* a request arrives: the body and the outcome of the last one are dropped
Request(handler) ==
    [NoRequest EXCEPT !.handler = handler, !.session = http.session,
                      !.users = http.users, !.pre = committed]

\* res.redirect, res.render, res.status(403).render or next(error)
Respond(request, response) == [request EXCEPT !.pc = "idle", !.response = response]

\* PagesController.login: usersService.loginUser returns a users row, which
\* becomes the session
login(user) ==
    /\ http.pc = "idle"
    /\ user \in http.users
    /\ http' = Respond([Request("login") EXCEPT !.session = user], "redirect_ok")
    /\ UNCHANGED <<catalog, now, conn, service, committed, seqs, pool, pc, locals>>

\* PagesController.guestLogin
guestLogin ==
    /\ http.pc = "idle"
    /\ http' = Respond([Request("guestLogin") EXCEPT !.session = Session(Null, "guest")],
                       "redirect_ok")
    /\ UNCHANGED <<catalog, now, conn, service, committed, seqs, pool, pc, locals>>

\* (fault: the role of the body is passed on)
RegisteredRole_FromBody(role) == role

\* role: req.body.role === 'guest' ? 'guest' : 'customer'
RegisteredRole(role) == IF role = "guest" THEN "guest" ELSE "customer"

\* UsersServices.registerUser: a users row with the role it is given
UsersServices_registerUser(users, role) ==
    users \cup {Session(Num(Cardinality(users) + 1), role)}

\* PagesController.register
register(role) ==
    /\ http.pc = "idle"
    /\ ops < MaxOps
    /\ ops' = ops + 1
    /\ http' = Respond([Request("register") EXCEPT
                           !.body_role = role,
                           !.role = RegisteredRole(role),
                           !.users = UsersServices_registerUser(http.users,
                                                                RegisteredRole(role))],
                       "redirect_ok")
    /\ UNCHANGED <<catalog, now, conn, caller, committed, seqs, pool, pc, locals>>

\* PagesController.salesCreate up to its first await: the cart of the body,
\* then salesService.createSale(userId)
salesCreate(items, discount_percentage) ==
    /\ http.pc = "idle"
    /\ ops < MaxOps
    /\ ops' = ops + 1
    /\ LET request == [Request("salesCreate") EXCEPT
                          !.items = items, !.discount_percentage = discount_percentage]
       IN IF ~http.session.present \/ Len(items) = 0
             \/ InvalidId(http.session.user_id)
          THEN /\ http' = Respond(request, "redirect_error")
               /\ UNCHANGED <<sales, sale_seq>>
          ELSE /\ sales' = sales \cup
                      {[NoSale EXCEPT !.sale_id = sale_seq,
                                      !.user_id = http.session.user_id.n,
                                      !.sale_date = SaleDateDefault]}
               /\ sale_seq' = sale_seq + 1
               /\ http' = [request EXCEPT !.pc = "add_items", !.sale_id = sale_seq,
                                          !.i = 1]
    /\ UNCHANGED <<catalog, now, conn, caller, inventory, sale_items, item_seq, pool, pc,
                   locals>>

\* SaleItemsServices.createSaleItem rejects a missing identifier or field
CartItemIncomplete(item) ==
    Falsy(item.product_id) \/ Falsy(item.quantity) \/ Falsy(item.price)

\* the for loop of salesCreate: saleItemsService.createSaleItem(sale.sale_id,
\* item.product_id, item.quantity, item.price)
createSaleItem ==
    /\ http.pc = "add_items"
    /\ LET item == http.items[http.i]
       IN IF CartItemIncomplete(item)
          THEN /\ http' = Respond(http, "redirect_error")
               /\ UNCHANGED <<sale_items, item_seq>>
          ELSE /\ sale_items' = sale_items \cup
                      {[sale_item_id |-> item_seq, sale_id |-> http.sale_id,
                        product_id |-> item.product_id.n, quantity |-> item.quantity.n,
                        price_at_sale |-> item.price.n]}
               /\ item_seq' = item_seq + 1
               /\ http' = [http EXCEPT
                              !.i = @ + 1,
                              !.pc = IF http.i < Len(http.items)
                                     THEN "add_items" ELSE "apply_discount"]
    /\ UNCHANGED <<catalog, now, conn, service, inventory, sales, sale_seq, pool, pc, locals>>

\* the end of salesCreate: if (discount_percentage && discount_percentage > 0)
\* salesService.applyDiscount(sale.sale_id, parseFloat(discount_percentage)),
\* then the redirect to the receipt
salesCreateDiscount ==
    /\ http.pc = "apply_discount"
    /\ LET d == http.discount_percentage
           currentSale == SaleRow(http.sale_id)
           discount_amount == DiscountAmount(DiscountBase(currentSale), d)
           row == [currentSale EXCEPT
                      !.discount_percentage = d,
                      !.discount_amount = discount_amount,
                      !.total_amount = TotalAmount(DiscountBase(currentSale),
                                                   discount_amount)]
       IN IF Falsy(d) \/ ~JsGt(d, Num(0))
          THEN /\ http' = Respond(http, "redirect_ok")
               /\ UNCHANGED sales
          ELSE IF NullOrNaN(d) \/ DiscountOutOfRange(d)
          THEN /\ http' = Respond(http, "redirect_error")
               /\ UNCHANGED sales
          ELSE /\ sales' = UpdateRow(http.sale_id, row)
               /\ http' = Respond(http, "redirect_ok")
    /\ UNCHANGED <<catalog, now, conn, service, inventory, sale_items, seqs, pool, pc, locals>>

\* (fault: the owner test is skipped for a session without a user_id)
Forbidden_SkipsGuest(session, row) ==
    /\ session.role # "admin"
    /\ ~Falsy(session.user_id)
    /\ Num(row.user_id) # session.user_id

\* !isAdmin && sale.user_id !== userId
Forbidden(session, row) ==
    session.role # "admin" /\ Num(row.user_id) # session.user_id

\* PagesController.saleDetails up to the permission test:
\* salesService.getSaleById(saleId), which throws for an invalid identifier
\* and returns null for no row
saleDetails(saleId) ==
    /\ http.pc = "idle"
    /\ LET request == [Request("saleDetails") EXCEPT
                          !.sale_id = IF IsNum(saleId) THEN saleId.n ELSE 0]
       IN http' =
            IF ~http.session.present \/ InvalidId(saleId)
            THEN Respond(request, "error")
            ELSE IF ~SaleExists(saleId.n)
            THEN Respond(request, "redirect_error")
            ELSE IF Forbidden(http.session, SaleRow(saleId.n))
            THEN Respond(request, "forbidden")
            ELSE [request EXCEPT !.pc = "get_items"]
    /\ UNCHANGED <<catalog, now, conn, service, committed, seqs, pool, pc, locals>>

\* saleItemsService.getSaleItemsBySaleId(saleId), then the receipt
getSaleItemsBySaleId ==
    /\ http.pc = "get_items"
    /\ http' = Respond([http EXCEPT
                           !.fetched = TRUE,
                           !.rows = {row \in sale_items : row.sale_id = http.sale_id}],
                       "render")
    /\ UNCHANGED <<catalog, now, conn, service, committed, seqs, pool, pc, locals>>

\* the bodies of the requests: carts of 0..MaxItems items with and without
\* a quantity, discounts within and beyond the range, roles and identifiers
CartItem(p, q, a) == [product_id |-> p, quantity |-> q, price |-> a]

CartItems ==
    {CartItem(Num(1), Num(2), PriceFive), CartItem(Num(2), Undefined, PriceFive)}

Carts == UNION {[1..n -> CartItems] : n \in 0..MaxItems}

CartDiscounts == {Undefined, Num(10), Num(101)}

BodyRoles == {"undefined", "guest", "customer", "admin"}

NextPages ==
    \/ \E user \in http.users : login(user)
    \/ guestLogin
    \/ \E role \in BodyRoles : register(role)
    \/ \E items \in Carts, d \in CartDiscounts : salesCreate(items, d)
    \/ createSaleItem
    \/ salesCreateDiscount
    \/ \E saleId \in OpIds : saleDetails(saleId)
    \/ getSaleItemsBySaleId

SpecPages == Init /\ [][NextPages]_vars

(***************************************************************************)
(* Properties.                                                             *)
(***************************************************************************)
Finished(r) == pc[r] = "done"
Succeeded(r) == Finished(r) /\ error[r] = NoError
FailedWith(r, kind) == Finished(r) /\ error[r].kind = kind
FailedAtItem(r) == FailedWith(r, "not_found") \/ FailedWith(r, "insufficient_stock")

RECURSIVE SumQuantity(_)
SumQuantity(rows) ==
    IF rows = {} THEN 0
    ELSE LET row == CHOOSE row \in rows : TRUE
         IN row.quantity + SumQuantity(rows \ {row})

\* the quantity of product p in the committed sale_items rows
SoldQuantity(p) == SumQuantity({row \in sale_items : row.product_id = p})

RECURSIVE RequestedQuantity(_, _)
\* the quantity of product p that a list of complete items asks for
RequestedQuantity(items, p) ==
    IF items = <<>> THEN 0
    ELSE (IF Head(items).product_id = Num(p) THEN Head(items).quantity.n ELSE 0)
         + RequestedQuantity(Tail(items), p)

OnlyProduct(r, p) ==
    \A i \in DOMAIN args[r].items : args[r].items[i].product_id = Num(p)

\* C1 (SpecAlone): an invocation that failed at a line item, the inventory
\* row missing or the stock insufficient, leaves the committed store as it
\* was at its call: no sales row, no sale_items row and no inventory change
\* of the attempt persists.
C1_FailedSaleLeavesStore ==
    \A r \in Requests :
        (pc[r] \in {"release", "done"} /\ error[r].kind \in {"not_found", "insufficient_stock"})
            => committed = pre[r].store

\* a sale that failed at its second item, after the first one was inserted
\* and its stock decremented
C1_Witness ==
    \E r \in Requests :
        /\ FailedAtItem(r)
        /\ idx[r] = 2
        /\ item_seq > 1
        /\ sale_seq > 1

\* C2 as stated (Spec): of two concurrent requests for the same product
\* whose combined quantity exceeds the available stock, exactly one succeeds
\* and the other fails for insufficient stock, and the stock taken by both
\* never exceeds the available stock.
C2_SameProduct(p) ==
    /\ Finished("r1") /\ Finished("r2")
    /\ "r1" \in pre["r2"].inflight \/ "r2" \in pre["r1"].inflight
    /\ pre["r1"].store[1][p] = InitStock[p] /\ pre["r2"].store[1][p] = InitStock[p]
    /\ OnlyProduct("r1", p) /\ OnlyProduct("r2", p)
    /\ RequestedQuantity(args["r1"].items, p) + RequestedQuantity(args["r2"].items, p)
           > InitStock[p]

C2_ExactlyOne(p) ==
    /\ \/ Succeeded("r1") /\ FailedWith("r2", "insufficient_stock")
       \/ Succeeded("r2") /\ FailedWith("r1", "insufficient_stock")
    /\ InitStock[p] - inventory[p] <= InitStock[p]
    /\ SoldQuantity(p) <= InitStock[p]

C2_AsStated ==
    \A p \in DOMAIN InitStock : C2_SameProduct(p) => C2_ExactlyOne(p)

\* C2 amended (Spec): the same, for two requests each of which asks for no
\* more than the available stock.
C2_EachFits(p) ==
    /\ RequestedQuantity(args["r1"].items, p) <= InitStock[p]
    /\ RequestedQuantity(args["r2"].items, p) <= InitStock[p]

C2_OneOfTwoSucceeds ==
    \A p \in DOMAIN InitStock :
        (C2_SameProduct(p) /\ C2_EachFits(p)) => C2_ExactlyOne(p)

\* two overlapping requests for product 1 that ask for 10 and 5 of the 10 in
\* stock
C2_Witness ==
    /\ C2_SameProduct(1) /\ C2_EachFits(1)
    /\ Len(args["r1"].items) = 2
    /\ Succeeded("r2")

\* C3 (Spec): in every committed state every inventory row has
\* quantity_in_stock >= 0.
C3_StockNonNegative == \A p \in DOMAIN inventory : inventory[p] >= 0

\* both requests committed, one of them with two items of product 1, and
\* the stock of product 1 is used up
C3_Witness ==
    /\ Succeeded("r1") /\ Succeeded("r2")
    /\ "r1" \in pre["r2"].inflight
    /\ \E r \in Requests :
          /\ Len(args[r].items) = 2
          /\ OnlyProduct(r, 1)
    /\ inventory[1] < InitStock[1]

\* C4 (Spec): each product's quantity_in_stock is its value before the
\* transactions less the quantities of the committed sale_items rows of the
\* product.
C4_StockMatchesItems ==
    \A p \in DOMAIN inventory : inventory[p] = InitStock[p] - SoldQuantity(p)

\* one request committed two products, the other was rolled back at its
\* second item after its first decrement
C4_Witness ==
    \E r \in Requests, o \in Requests :
        /\ Succeeded(r) /\ Len(args[r].items) = 2
        /\ FailedAtItem(o) /\ idx[o] = 2
        /\ SoldQuantity(1) > 0 /\ SoldQuantity(2) > 0

\* a sum of money rounded to two decimals, halves away from zero
Round2(n) ==
    IF n >= 0 THEN ((n + 50) \div 100) * 100 ELSE 0 - (((0 - n) + 50) \div 100) * 100

\* C5 as stated (SpecOps): every committed sale has discount_amount =
\* subtotal * discount_percentage / 100, to two decimals, and total_amount =
\* subtotal - discount_amount.
C5_AsStated ==
    \A row \in sales :
        /\ IsNum(row.subtotal) /\ IsNum(row.discount_percentage)
        /\ IsNum(row.discount_amount) /\ IsNum(row.total_amount)
        /\ Round2(row.discount_amount.n)
               = Round2((row.subtotal.n * row.discount_percentage.n) \div 100)
        /\ row.total_amount.n = row.subtotal.n - row.discount_amount.n

RECURSIVE LineTotals(_)
\* the sum of price_at_sale * quantity over a list of complete items
LineTotals(items) ==
    IF items = <<>> THEN 0
    ELSE Head(items).price_at_sale.n * Head(items).quantity.n + LineTotals(Tail(items))

Committed(r) == pc[r] \in {"release", "done"} /\ error[r] = NoError

\* the percentage a call supplies, 0 when it supplies none
Supplied(r) ==
    IF args[r].discount_percentage = Undefined THEN Num(0)
    ELSE args[r].discount_percentage

ExpectedDiscount(sub, d) == IF IsNum(d) THEN Num((sub * d.n) \div 100) ELSE NaN
ExpectedTotal(sub, d) == IF IsNum(d) THEN Num(sub - (sub * d.n) \div 100) ELSE NaN

\* C6 (SpecAlone): the sale that a committed invocation persists and returns
\* has subtotal = the sum of price_at_sale * quantity over its items,
\* discount_percentage = the supplied percentage (0 when omitted),
\* discount_amount = subtotal * discount_percentage / 100 and total_amount =
\* subtotal - discount_amount; stock 10 and one item of 3 at 5.00 with
\* discount 10 give 15.00, 1.50, 13.50 and stock 7.
C6_CommittedTotals ==
    \A r \in Requests :
        Committed(r) =>
            LET row == ret[r]
                sub == LineTotals(args[r].items)
            IN /\ row \in sales
               /\ row.sale_id = sale[r].sale_id
               /\ row.subtotal = Num(sub)
               /\ row.discount_percentage = Supplied(r)
               /\ row.discount_amount = ExpectedDiscount(sub, Supplied(r))
               /\ row.total_amount = ExpectedTotal(sub, Supplied(r))
               /\ (/\ args[r].items = <<Item(Num(1), Num(3), PriceFive)>>
                   /\ args[r].discount_percentage = Num(10)
                   /\ pre[r].store[1][1] = 10)
                  => /\ row.subtotal = Num(150000)
                     /\ row.discount_amount = Num(15000)
                     /\ row.total_amount = Num(135000)
                     /\ inventory[1] = 7

\* the committed sale of 3 of product 1 at 5.00 with discount 10
C6_Witness ==
    \E r \in Requests :
        /\ Committed(r)
        /\ args[r].items = <<Item(Num(1), Num(3), PriceFive)>>
        /\ args[r].discount_percentage = Num(10)
        /\ inventory[1] = 7

\* the step of request r that follows its SELECT ... FOR UPDATE
AfterSelect(r) == pc[r] = "insert_item" /\ pc'[r] # "insert_item"

\* C7 (SpecAlone): when the quantity of an item exceeds the locked
\* quantity_in_stock of its product, the invocation fails with an
\* insufficient-stock error that names the available and the requested
\* amounts, and the stock of the product stays at its prior value.
C7_Step(r) ==
    (/\ AfterSelect(r)
     /\ Len(invResult[r]) > 0
     /\ CurrentItem(r).quantity.n > invResult[r][1])
    => /\ pc'[r] = "rollback"
       /\ error'[r] = Error("insufficient_stock", CurrentItem(r).product_id.n,
                            invResult[r][1], CurrentItem(r).quantity.n)
       /\ UNCHANGED committed

C7_Final(r) ==
    (pc[r] \in {"release", "done"} /\ error[r].kind = "insufficient_stock")
    => /\ inventory = pre[r].store[1]
       /\ error[r].requested > error[r].available

C7_InsufficientStockFails ==
    /\ [](\A r \in Requests : C7_Final(r))
    /\ [][\A r \in Requests : C7_Step(r)]_vars

\* 5 asked of product 2 with 2 in stock: available 2, requested 5, stock 2
C7_Witness ==
    \E r \in Requests :
        /\ Finished(r)
        /\ error[r] = Error("insufficient_stock", 2, 2, 5)
        /\ inventory[2] = 2

\* C8 (SpecAlone): when an item names a product without an inventory row,
\* at whatever position of the list, the whole transaction fails with a
\* not-found error for that product and no sale_items row is inserted for
\* the item.
C8_Step(r) ==
    (AfterSelect(r) /\ CurrentItem(r).product_id.n \notin DOMAIN inventory)
    => /\ pc'[r] = "rollback"
       /\ error'[r] = Error("not_found", CurrentItem(r).product_id.n, 0, 0)
       /\ txItems'[r] = txItems[r]
       /\ UNCHANGED <<item_seq, committed>>

C8_Final(r) ==
    /\ (pc[r] \in {"release", "done"} /\ error[r].kind = "not_found")
           => committed = pre[r].store
    /\ \A row \in sale_items \cup txItems[r] : row.product_id \in DOMAIN inventory

C8_MissingInventoryFails ==
    /\ [](\A r \in Requests : C8_Final(r))
    /\ [][\A r \in Requests : C8_Step(r)]_vars

\* the product without a row named by the second item, after the first item
\* was inserted
C8_Witness ==
    \E r \in Requests :
        /\ FailedWith(r, "not_found")
        /\ error[r].product_id = 3
        /\ idx[r] = 2
        /\ item_seq > 1

\* every item of the call has a positive quantity
QuantitiesPositive(r) ==
    \A i \in DOMAIN args[r].items :
        IsNum(args[r].items[i].quantity) /\ args[r].items[i].quantity.n > 0

\* the percentage of the call is a number of [0, 100]
DiscountValid(r) == IsNum(Supplied(r)) /\ Supplied(r).n >= 0 /\ Supplied(r).n <= 100

\* C9 as stated (SpecAlone): every persisted sale has discount_percentage
\* within [0, 100]; a supplied percentage outside the range, or one that is
\* not a number, makes the invocation fail and leaves the store unchanged.
\* Stated of the calls whose quantities are positive, which keeps it apart
\* from the property of the quantities (C10).
C9_AsStated ==
    \A r \in Requests :
        (pc[r] \in {"release", "done"} /\ QuantitiesPositive(r))
        => /\ \A row \in sales :
                 /\ IsNum(row.discount_percentage)
                 /\ row.discount_percentage.n >= 0
                 /\ row.discount_percentage.n <= 100
           /\ ~DiscountValid(r) => (error[r] # NoError /\ committed = pre[r].store)

\* C10 as stated (SpecAlone): an item whose quantity is zero, negative or
\* absent is rejected, so that no committed sale_items row has quantity <= 0
\* and no committed sale increases a product's quantity_in_stock.  Stated of
\* the calls whose percentage is valid, which keeps it apart from the
\* property of the percentage (C9).
C10_AsStated ==
    \A r \in Requests :
        (pc[r] \in {"release", "done"} /\ DiscountValid(r))
        => /\ ~QuantitiesPositive(r) => error[r] # NoError
           /\ \A row \in sale_items : row.quantity > 0
           /\ \A p \in DOMAIN inventory : inventory[p] <= pre[r].store[1][p]

\* C11 as stated (SpecInventory): no inventory creation and no stock
\* adjustment, as productsCreate and inventoryUpdate reach the repository,
\* ever persists a negative quantity_in_stock.
C11_AsStated == \A p \in DOMAIN inventory : inventory[p] >= 0

\* C12 (SpecOps): applyDiscount is idempotent: when the same percentage is
\* applied to the same sale twice in a row, the sale stored by the second
\* application has the subtotal, the discount_amount and the total_amount
\* that the first one stored.
C12_Step ==
    (/\ caller.pc = "update_with_discount"
     /\ caller'.pc = "idle"
     /\ caller.applied.times > 0)
        => /\ caller'.applied.row \in sales'
           /\ caller'.applied.row.subtotal = caller.applied.row.subtotal
           /\ caller'.applied.row.discount_amount = caller.applied.row.discount_amount
           /\ caller'.applied.row.total_amount = caller.applied.row.total_amount

C12_ApplyDiscountIdempotent == [][C12_Step]_vars

\* a sale with items got the same percentage, above 0, twice in a row
C12_Witness ==
    /\ caller.pc = "idle"
    /\ caller.applied.times = 2
    /\ caller.applied.row \in sales
    /\ caller.applied.row.discount_amount.n > 0

\* a step of applyDiscount that ends its first part, and one that ends the
\* operation
ApplyDiscountCalled ==
    caller.pc = "idle" /\ ops' = ops + 1 /\ caller'.op = "applyDiscount"
ApplyDiscountUpdated == caller.pc = "update_with_discount" /\ caller'.pc = "idle"

\* C13 (SpecOps): applyDiscount changes neither the subtotal, the user_id
\* or the sale_date of a sale nor any sale_items row; its single update
\* writes, to the sale it names and to no other, the percentage, the
\* discount_amount and the total_amount recomputed from the subtotal it
\* read.
C13_Step ==
    /\ ApplyDiscountCalled => UNCHANGED <<sales, sale_items, inventory>>
    /\ ApplyDiscountUpdated =>
          /\ UNCHANGED <<sale_items, inventory>>
          /\ Cardinality(sales') = Cardinality(sales)
          /\ \A row \in sales : \E after \in sales' :
                /\ after.sale_id = row.sale_id
                /\ after.user_id = row.user_id
                /\ after.sale_date = row.sale_date
                /\ after.subtotal = row.subtotal
                /\ row.sale_id # caller.sale_id => after = row
                /\ row.sale_id = caller.sale_id =>
                      /\ after.discount_percentage = caller.discount_percentage
                      /\ after.discount_amount =
                             ExpectedDiscount(row.subtotal.n, caller.discount_percentage)
                      /\ after.total_amount =
                             ExpectedTotal(row.subtotal.n, caller.discount_percentage)

C13_ApplyDiscountFrame == [][C13_Step]_vars

\* of two sales, the one with items got 20 percent in place of its 10
C13_Witness ==
    /\ caller.pc = "idle" /\ caller.op = "applyDiscount" /\ caller.queries = 2
    /\ Cardinality(sales) = 2
    /\ \E row \in sales :
          /\ row.sale_id = caller.sale_id
          /\ row.subtotal.n > 0
          /\ row.discount_percentage = Num(20)
          /\ \E item \in sale_items : item.sale_id = row.sale_id

\* a percentage that is a number outside [0, 100]
OutsideRange(d) == IsNum(d) /\ (d.n < 0 \/ d.n > 100)

\* C14 (SpecOps): applyDiscount on a sale that does not exist fails with a
\* not-found error; applyDiscount with a percentage outside [0, 100] fails
\* with an invalid-percentage error (for a valid sale identifier; the
\* identifier is tested first) before any storage access; neither modifies
\* a sales row.
C14_Final ==
    (caller.op = "applyDiscount" /\ caller.args # <<>>) =>
        LET sale_id == caller.args[1]
            d == caller.args[2]
        IN /\ OutsideRange(d) =>
                 /\ caller.pc = "idle"
                 /\ caller.error # "none"
                 /\ caller.queries = 0
                 /\ IsNum(sale_id) /\ sale_id.n # 0 => caller.error = "discount_range"
           /\ (/\ IsNum(sale_id) /\ sale_id.n # 0
               /\ IsNum(d) /\ ~OutsideRange(d)
               /\ ~SaleExists(sale_id.n)) =>
                 caller.pc = "idle" /\ caller.error = "not_found"

C14_Step ==
    (ApplyDiscountCalled /\ caller'.error # "none") =>
        UNCHANGED <<sales, sale_items, inventory>>

C14_ApplyDiscountRejects == []C14_Final /\ [][C14_Step]_vars

\* 101 percent was refused for a sale that exists
C14_Witness ==
    /\ caller.op = "applyDiscount" /\ caller.error = "discount_range"
    /\ caller.args[2] = Num(101)
    /\ SaleExists(caller.args[1].n)
    /\ caller.queries = 0

\* C15 (SpecPrices): the totals of a sale are those of the price_at_sale and
\* the quantity of its items and of the supplied percentage, before and
\* after its COMMIT, whatever unit_price the products have: an update of a
\* product's price during the checkout leaves them as they are.
C15_TotalsIgnorePriceEdits ==
    \A r \in Requests :
        LET sub == LineTotals(args[r].items)
            expected ==
                [sale[r] EXCEPT
                    !.subtotal = Num(sub),
                    !.discount_percentage = Supplied(r),
                    !.discount_amount = ExpectedDiscount(sub, Supplied(r)),
                    !.total_amount = ExpectedTotal(sub, Supplied(r))]
        IN /\ (pc[r] = "commit" \/ Committed(r)) => sale[r] = expected
           /\ Committed(r) => expected \in sales

\* a committed sale of product 1 at 5.00 during whose transaction the
\* unit_price of product 1 was set to 0.05
C15_Witness ==
    \E r \in Requests :
        /\ Committed(r)
        /\ args[r].items[1].product_id = Num(1)
        /\ args[r].items[1].price_at_sale = PriceFive
        /\ caller.op = "updateProduct" /\ caller.error = "none"
        /\ caller.args[1] = Num(1)
        /\ r \in caller.during
        /\ products[1].unit_price = PriceFiveCents

\* C16 as stated (SpecFaults): whenever a storage call rejects, in a
\* repository method or in createSaleWithItems (the checkout of the
\* connection and ROLLBACK included), the caller receives an error that the
\* code built around the original message, never the exception of the
\* storage layer itself.
C16_AsStated ==
    /\ caller.thrown # "raw"
    /\ \A r \in Requests : conn[r].thrown # "raw"

\* the requests that hold a connection
Holding == {r \in Requests : conn[r].held}

\* C19 (SpecFaults): an invocation that checked out a connection holds it
\* for every statement it issues and releases it exactly once on every way
\* out, after COMMIT, after an error and after a COMMIT or a ROLLBACK that
\* failed; once every invocation has ended no connection is checked out.
C19_ConnectionReleasedOnce ==
    /\ pool + Cardinality(Holding) = MaxPool
    /\ (\A r \in Requests : Finished(r)) => pool = MaxPool
    /\ \A r \in Requests :
          /\ conn[r].releases <= 1
          /\ pc[r] \in {"begin", "insert_sale", "select", "insert_item",
                        "update_inventory", "update_sale", "commit", "rollback",
                        "release"}
                => conn[r].held /\ conn[r].releases = 0
          /\ Finished(r) =>
                /\ ~conn[r].held
                /\ conn[r].releases = IF error[r].kind = "connect" THEN 0 ELSE 1

\* every invocation has ended, one after a COMMIT that failed and one after
\* a ROLLBACK that failed
C19_Witness ==
    /\ \A r \in Requests : Finished(r) /\ conn[r].releases = 1
    /\ \E r \in Requests : conn[r].commit = "failed"
    /\ \E r \in Requests : conn[r].rollback = "failed"
    /\ pool = MaxPool

\* C20 (SpecFaults): an invocation that fails after BEGIN was issued has
\* issued ROLLBACK before its error reaches the caller, and no invocation
\* both commits and rolls back.
C20_Final ==
    \A r \in Requests :
        /\ (conn[r].thrown # "none" /\ conn[r].begin # "none")
              => conn[r].rollback # "none"
        /\ ~(conn[r].commit = "ok" /\ conn[r].rollback # "none")
        /\ conn[r].commit = "ok" => error[r] = NoError

C20_Step ==
    \A r \in Requests :
        (conn[r].thrown = "none" /\ conn'[r].thrown # "none" /\ conn[r].begin # "none")
            => conn[r].rollback # "none" /\ conn[r].commit # "ok"

C20_RollbackBeforeError == []C20_Final /\ [][C20_Step]_vars

\* an invocation whose COMMIT failed: ROLLBACK followed and the caller got
\* the error
C20_Witness ==
    \E r \in Requests :
        /\ Finished(r)
        /\ conn[r].commit = "failed"
        /\ conn[r].rollback = "ok"
        /\ conn[r].thrown = "wrapped"

\* a string is the DD/MM/YYYY writing of a day of the calendar
WellFormedDate(str) ==
    /\ Len(str) = 10
    /\ \A i \in 1..10 : IF i \in {3, 6} THEN str[i] = "/" ELSE IsDigit(str[i])
    /\ LET day == DigitValue(str[1]) * 10 + DigitValue(str[2])
           month == DigitValue(str[4]) * 10 + DigitValue(str[5])
       IN month >= 1 /\ month <= 12 /\ day >= 1 /\ day <= 31

\* C17 as stated (SpecDates): getSalesBetweenDates fails, and no repository
\* query is issued, whenever one of its dates is missing or is not a
\* well-formed DD/MM/YYYY date: wrong separators, wrong digit counts, or a
\* day or month that does not exist, as in 99/99/2024.
C17_AsStated ==
    (/\ caller.op = "getSalesBetweenDates"
     /\ ~WellFormedDate(caller.args[1]) \/ ~WellFormedDate(caller.args[2]))
        => /\ caller.pc = "idle"
           /\ caller.error # "none"
           /\ caller.queries = 0

\* the day of a timestamp as one number
DayNumber(ts) == ts.year * 10000 + ts.month * 100 + ts.day

\* the sale with the identifier of a returned row
StoredSale(row) == CHOOSE stored \in sales : stored.sale_id = row.sale_id

\* C18 (SpecDates): for two well-formed dates findBetweenDates returns the
\* sales whose sale_date falls, as a calendar date, within the window, both
\* ends included, each one once and no other, ordered by descending sale
\* date.
C18_Step ==
    (/\ caller.pc = "find_between_dates"
     /\ caller'.pc = "idle"
     /\ caller'.error = "none")
        => LET rows == caller'.rows
               first == DayNumber(ToDate(caller.args[1]))
               last == DayNumber(ToDate(caller.args[2]))
               within == {stored \in sales :
                             /\ first <= DayNumber(stored.sale_date)
                             /\ DayNumber(stored.sale_date) <= last}
           IN /\ Len(rows) = Cardinality(within)
              /\ \A stored \in within : \E i \in DOMAIN rows :
                    rows[i] = [stored EXCEPT !.sale_date = ToChar(stored.sale_date)]
              /\ \A i \in DOMAIN rows : \E stored \in within :
                    stored.sale_id = rows[i].sale_id
              /\ \A i, j \in DOMAIN rows :
                    i < j => TimestampLe(StoredSale(rows[j]).sale_date,
                                         StoredSale(rows[i]).sale_date)

OwnQuantity(r, p) == SumQuantity({row \in txItems[r] : row.product_id = p})

\* request r is at the stock test or at the decrement of an inventory row
AtRow(r) ==
    \/ pc[r] = "insert_item" /\ Len(invResult[r]) > 0
    \/ pc[r] = "update_inventory"

\* C21 (Spec): from the SELECT ... FOR UPDATE of a product's inventory row
\* until COMMIT or ROLLBACK the transaction alone holds the row: no other
\* createSaleWithItems transaction is at its stock test or its decrement of
\* that product, and the quantity that a stock test reads is the committed
\* quantity less what the transaction itself has taken before.
C21_RowLockExcludes ==
    /\ \A r, o \in Requests : r # o => locks[r] \cap locks[o] = {}
    /\ \A r \in Requests :
          /\ DOMAIN txInv[r] \subseteq locks[r]
          /\ AtRow(r) => CurrentItem(r).product_id.n \in locks[r]
          /\ (pc[r] = "insert_item" /\ Len(invResult[r]) > 0) =>
                LET p == CurrentItem(r).product_id.n
                IN invResult[r][1] = inventory[p] - OwnQuantity(r, p)
          /\ pc[r] \in {"idle", "connect", "begin", "insert_sale", "release", "done"}
                => locks[r] = {}

\* one transaction has decremented a row and not yet committed while the
\* other is stopped at its SELECT ... FOR UPDATE of the same row
C21_Witness ==
    \E r, o \in Requests :
        /\ r # o
        /\ pc[r] = "select"
        /\ CurrentItem(r).product_id.n \in DOMAIN txInv[o]
        /\ ~ENABLED SelectForUpdate(r)

\* the products of the items of request r
ProductsOf(r) == {args[r].items[i].product_id.n : i \in DOMAIN args[r].items}

\* the item lists of request r and of the other request share no product
DisjointFromOthers(r) ==
    \A o \in Requests \ {r} : ProductsOf(r) \cap ProductsOf(o) = {}

RECURSIVE RunAlone(_, _)
\* the items taken one after the other from the stock, with no other
\* invocation: the first item that the stock does not cover, and the stock
\* that is left
RunAlone(items, stock) ==
    IF items = <<>> THEN [error |-> NoError, stock |-> stock]
    ELSE LET p == Head(items).product_id.n
             quantity == Head(items).quantity.n
         IN IF stock[p] < quantity
            THEN [error |-> InsufficientStockError(p, stock[p], quantity),
                  stock |-> stock]
            ELSE RunAlone(Tail(items), [stock EXCEPT ![p] = @ - quantity])

\* C22 (Spec): an invocation whose items share no product with the items of
\* the concurrent invocation never waits for it: each of its statements can
\* be taken in every state, whatever the other has done, and it ends as it
\* would alone, with the same error or the same totals and the same stock of
\* its products.
C22_DisjointRunIndependently ==
    \A r \in Requests :
        DisjointFromOthers(r) =>
            /\ pc[r] \notin {"idle", "done"} => ENABLED createSaleWithItems(r)
            /\ Finished(r) =>
                  LET alone == RunAlone(args[r].items, InitStock)
                      sub == LineTotals(args[r].items)
                  IN /\ error[r] = alone.error
                     /\ \A p \in ProductsOf(r) :
                           inventory[p] = IF alone.error = NoError
                                          THEN alone.stock[p] ELSE InitStock[p]
                     /\ alone.error = NoError =>
                           /\ ret[r] \in sales
                           /\ ret[r].subtotal = Num(sub)
                           /\ ret[r].discount_amount = ExpectedDiscount(sub, Supplied(r))
                           /\ ret[r].total_amount = ExpectedTotal(sub, Supplied(r))
                           /\ Cardinality({row \in sale_items :
                                  row.sale_id = ret[r].sale_id}) = Len(args[r].items)
                     /\ alone.error # NoError =>
                           {row \in sales : row.sale_id = sale[r].sale_id} = {}

\* two invocations that overlapped, one over product 1 and one over product
\* 2: the first committed and the second failed for its own stock
C22_Witness ==
    /\ Finished("r1") /\ Finished("r2")
    /\ "r1" \in pre["r2"].inflight \/ "r2" \in pre["r1"].inflight
    /\ ProductsOf("r1") = {1} /\ ProductsOf("r2") = {2}
    /\ Succeeded("r1") /\ FailedWith("r2", "insufficient_stock")

\* the errors of createSaleWithItems for an invalid user_id, a missing or
\* empty item list and an item with a missing field
RejectedInput(r) == error[r].kind \in {"invalid_user", "no_items", "item_incomplete"}

\* C23 as stated (SpecAlone), for createSaleWithItems: an invocation that
\* rejects an invalid identifier or a missing required field has issued no
\* storage call: no connection was checked out of the pool, no BEGIN was
\* sent and no INSERT has drawn a sale_id or a sale_item_id.
C23_AsStated ==
    \A r \in Requests :
        RejectedInput(r) =>
            /\ ~conn[r].held /\ conn[r].releases = 0
            /\ conn[r].begin = "none" /\ conn[r].rollback = "none"
            /\ sale_seq = 1 /\ item_seq = 1

\* request r has ended: its transaction is committed or rolled back, its
\* row locks are gone and its connection is back in the pool
Ended(r) ==
    /\ Finished(r)
    /\ conn[r].commit = "ok" \/ conn[r].rollback = "ok"
    /\ locks[r] = {}
    /\ ~conn[r].held /\ conn[r].releases = 1

\* C24 amended (SpecLive): under fair scheduling every invocation of
\* createSaleWithItems eventually commits or rolls back and releases its
\* connection, with a pool of fewer connections than requests too; two
\* invocations that take the same two products in opposite order can wait
\* for each other's row lock, and then the store fails the statement of one
\* of them, which rolls back, and the other goes on.
C24_EveryInvocationEnds ==
    \A r \in Requests : (pc[r] # "idle") ~> Ended(r)

\* C24 as stated (SpecLive): the same, and no invocation is ever in a cycle
\* of waits for inventory row locks.
C24_AsStated ==
    /\ [](\A r \in Requests : ~InWaitCycle(r))
    /\ \A r \in Requests : (pc[r] # "idle") ~> Ended(r)

\* products 1 and 2 taken in opposite orders: one invocation was failed by
\* the store and rolled back, the other committed both items
C24_Witness ==
    \E r, o \in Requests :
        /\ FailedWith(r, "deadlock") /\ Ended(r)
        /\ Succeeded(o) /\ Ended(o)
        /\ ProductsOf(r) = {1, 2} /\ ProductsOf(o) = {1, 2}
        /\ args[r].items[1] = args[o].items[2]

\* the last request was handled by the named handler and has its response
Handled(handler) == http.pc = "idle" /\ http.handler = handler

\* C25 as stated (SpecPages): a salesCreate request that ends with the error
\* redirect after salesService.createSale has succeeded leaves no sales row
\* and no sale_items row of the request: the committed store is the one the
\* request found.
C25_AsStated ==
    (Handled("salesCreate") /\ http.response = "redirect_error" /\ http.sale_id # 0)
        => /\ ~SaleExists(http.sale_id)
           /\ {row \in sale_items : row.sale_id = http.sale_id} = {}
           /\ committed = http.pre

\* a step of updateProduct that wrote the products row: every column whose
\* field is absent from updates keeps its value
C26_Step ==
    products' # products =>
        LET product_id == caller'.args[1].n
            updates == caller'.args[2]
        IN /\ updates.unit_price = Undefined =>
                 products'[product_id].unit_price = products[product_id].unit_price
           /\ updates.status = "undefined" =>
                 products'[product_id].status = products[product_id].status

\* C26 as stated (SpecPrices): ProductsServices.updateProduct with updates
\* that hold a subset of the product fields changes the supplied fields
\* only: every field that is absent from updates keeps its previous value.
C26_AsStated == [][C26_Step]_vars

\* C27 (SpecPages): whatever role the body of a registration carries, the
\* role that PagesController.register passes to usersService.registerUser
\* is 'guest' or 'customer': no request makes a user with another role.
C27_RegisterNeverAdmin ==
    /\ Handled("register") => http.role \in {"guest", "customer"}
    /\ \A user \in http.users \ InitUsers : user.role \in {"guest", "customer"}

\* a registration whose body asked for the role admin
C27_Witness ==
    /\ Handled("register") /\ http.body_role = "admin"
    /\ http.users # InitUsers

\* the session user may see the sale: an administrator, or the owner
MaySee(session, sale_id) ==
    session.role = "admin" \/ Num(SaleRow(sale_id).user_id) = session.user_id

\* C28 (SpecPages): PagesController.saleDetails fetches and renders the
\* items of a sale for an administrator or the owner of the sale only: for
\* every other session user, the guest with user_id null included, the
\* response to a request for an existing sale is 403 and the items are not
\* fetched.
C28_ReceiptForAdminOrOwner ==
    http.handler = "saleDetails" =>
        /\ (http.pc = "get_items" \/ http.fetched \/ http.response = "render")
              => MaySee(http.session, http.sale_id)
        /\ (/\ http.pc = "idle" /\ http.session.present
            /\ SaleExists(http.sale_id)
            /\ ~MaySee(http.session, http.sale_id))
              => /\ http.response = "forbidden"
                 /\ ~http.fetched /\ http.rows = {}

\* the guest asked for the receipt of a customer's sale that has an item,
\* and got 403
C28_Witness ==
    /\ Handled("saleDetails")
    /\ http.session = Session(Null, "guest")
    /\ \E row \in sale_items : row.sale_id = http.sale_id
    /\ http.response = "forbidden"

\* the session of PagesController.guestLogin
GuestSession == Session(Null, "guest")

\* C29 (SpecPages): a guest session, whose user_id is null, never creates a
\* sale: PagesController.salesCreate ends with the error redirect at its
\* first service call and no sales or sale_items row is persisted; no sales
\* row has a user_id that is not a user's.
C29_GuestCreatesNoSale ==
    /\ (http.handler = "salesCreate" /\ http.session = GuestSession) =>
          /\ http.pc = "idle"
          /\ http.response = "redirect_error"
          /\ http.sale_id = 0
          /\ committed = http.pre
    /\ \A row \in sales : row.user_id > 0

\* the guest sent a cart with an item and was redirected with the error
C29_Witness ==
    /\ Handled("salesCreate") /\ http.session = GuestSession
    /\ Len(http.items) > 0
    /\ ~CartItemIncomplete(http.items[1])
    /\ http.response = "redirect_error"

\* C30 as stated (SpecAlone): every sales row that createSaleWithItems has
\* committed has numeric amounts with subtotal >= 0 and 0 <= discount_amount
\* <= subtotal, hence 0 <= total_amount <= subtotal, for every item list and
\* every percentage that the code accepts.
C30_AsStated ==
    \A row \in sales :
        /\ IsNum(row.subtotal) /\ IsNum(row.discount_amount) /\ IsNum(row.total_amount)
        /\ row.subtotal.n >= 0
        /\ 0 <= row.discount_amount.n /\ row.discount_amount.n <= row.subtotal.n
        /\ 0 <= row.total_amount.n /\ row.total_amount.n <= row.subtotal.n

====
